---- MODULE Spec2Model ----
(***************************************************************************)
(* Model of the MongoDB access layer: MongoConnectionHandler               *)
(* (src/connection.py) and Repository with its per-category exception      *)
(* decorators (src/repository.py).  The pymongo driver and the store are   *)
(* the environment: every driver call either succeeds or raises one of the *)
(* driver's exception classes, chosen nondeterministically.                *)
(***************************************************************************)
EXTENDS Integers, Sequences, FiniteSets, TLC

VARIABLES
    client,         \* MongoConnectionHandler.__client        (0 is None)
    db_connection,  \* MongoConnectionHandler.__db_connection (0 is None)
    liveClients,    \* MongoClient objects created and not yet closed
    created,        \* number of MongoClient objects created so far
    connResult,     \* outcome of the last call on the connection handler
    docs,           \* the collection's documents, in insertion order
    before,         \* the collection's documents when the last call began
    indexes,        \* the collection's indexes
    inserted,       \* number of documents the store has given an identity
    op,             \* name of the last Repository method called
    args,           \* its arguments
    driver,         \* what the driver did during that call (failures it raised)
    requests,       \* the requests that call issued to the store, in order
    result          \* what the call gave its caller (return value or raised error)

connVars == <<client, db_connection, liveClients, created, connResult>>
repoVars == <<docs, before, indexes, inserted, op, args, driver, requests, result>>
vars == <<client, db_connection, liveClients, created, connResult,
          docs, before, indexes, inserted, op, args, driver, requests, result>>

(***************************************************************************)
(* Bounds of the model.                                                    *)
(***************************************************************************)
MaxClients == 5     \* MongoClient objects one handler creates
MaxIndexes == 1     \* indexes the collection holds before the last index call
MaxDocs == 2        \* documents inserted into the collection
MaxVal == 1         \* largest field value of a document

(***************************************************************************)
(* Exceptions.  An exception is [kind, msg]; msg records who built the     *)
(* message: "raw" the driver, "collect" __get_collection, a category name  *)
(* the decorator of that category, "value" a local precondition,           *)
(* "builtin" the Python runtime.                                           *)
(***************************************************************************)
None == 0

Exc(kind, msg) == [kind |-> kind, msg |-> msg]

Return(v) == [tag |-> "return", val |-> v]

Raise(e) == [tag |-> "raise", exc |-> e]

\* pymongo.errors / bson.errors class hierarchy (direct base class).
BaseOf(kind) ==
    CASE kind = "DuplicateKeyError" -> "WriteError"
      [] kind = "WriteError" -> "OperationFailure"
      [] kind = "CursorNotFound" -> "OperationFailure"
      [] kind = "WriteConcernError" -> "OperationFailure"
      [] kind = "BulkWriteError" -> "OperationFailure"
      [] kind = "OperationFailure" -> "PyMongoError"
      [] kind = "InvalidOperation" -> "PyMongoError"
      [] kind = "ConfigurationError" -> "PyMongoError"
      [] kind = "InvalidName" -> "PyMongoError"
      [] kind = "ServerSelectionTimeoutError" -> "AutoReconnect"
      [] kind = "AutoReconnect" -> "ConnectionFailure"
      [] kind = "ConnectionFailure" -> "PyMongoError"
      [] kind = "DocumentTooLarge" -> "InvalidDocument"
      [] kind = "InvalidDocument" -> "BSONError"
      [] OTHER -> "Exception"

RECURSIVE IsInstance(_, _)
\* isinstance(e, cls) as an except clause decides it
IsInstance(kind, cls) ==
    IF kind = cls THEN TRUE
    ELSE IF kind = "Exception" THEN FALSE
    ELSE IsInstance(BaseOf(kind), cls)

IsAnyInstance(kind, classes) == \E c \in classes : IsInstance(kind, c)

\* The store failures the specification recognises.
RecognizedKinds == {"DuplicateKeyError", "CursorNotFound", "OperationFailure",
                    "WriteConcernError", "InvalidOperation", "ConfigurationError",
                    "DocumentTooLarge"}

\* What a store call may raise: the recognised kinds and three others.
StoreErrors == RecognizedKinds \cup {"BulkWriteError", "ConnectionFailure", "InvalidName"}

\* `raise e(...)` where e is an exception instance, and `raise "text"`:
\* the raise statement itself fails with TypeError.
NotCallable == Exc("TypeError", "builtin")

(***************************************************************************)
(* The decorators: each takes the outcome of the decorated method and      *)
(* gives the outcome of the wrapper.  The except clauses are tried in the  *)
(* order of the source.                                                    *)
(***************************************************************************)
\* A bug of the kind "the method is left undecorated"
insert_undecorated(out) == out

insert_exceptions_decorator(out) ==
    IF out.tag = "return" THEN out
    ELSE LET k == out.exc.kind IN
         IF IsInstance(k, "DuplicateKeyError")
             THEN Raise(Exc("DuplicateKeyError", "insert"))
         ELSE IF IsAnyInstance(k, {"CursorNotFound", "OperationFailure", "WriteConcernError"})
             THEN Raise(Exc(k, "insert"))
         ELSE IF IsInstance(k, "ConfigurationError")
             THEN Raise(Exc("ConfigurationError", "insert"))
         ELSE IF IsInstance(k, "DocumentTooLarge")
             THEN Raise(Exc("DocumentTooLarge", "insert"))
         ELSE out

\* A bug of the kind `except Exception as e: raise type(e)(...)`: every
\* error of the body is re-raised with the wrapper's message.
select_remapping_decorator(out) ==
    IF out.tag = "return" THEN out ELSE Raise(Exc(out.exc.kind, "select"))

select_exceptions_decorator(out) ==
    IF out.tag = "return" THEN out
    ELSE LET k == out.exc.kind IN
         IF IsAnyInstance(k, {"CursorNotFound", "OperationFailure", "ConnectionFailure"})
             THEN Raise(Exc(k, "select"))
         ELSE IF IsInstance(k, "ConfigurationError")
             THEN Raise(NotCallable)
         ELSE out

\* A bug of the kind `except ...: return -1`: a sentinel instead of an error
delete_sentinel_decorator(out) == IF out.tag = "return" THEN out ELSE Return(-1)

delete_exceptions_decorator(out) ==
    IF out.tag = "return" THEN out
    ELSE LET k == out.exc.kind IN
         IF IsInstance(k, "DuplicateKeyError")
             THEN Raise(Exc("DuplicateKeyError", "delete"))
         ELSE IF IsAnyInstance(k, {"CursorNotFound", "OperationFailure",
                                   "WriteConcernError", "InvalidOperation"})
             THEN Raise(NotCallable)
         ELSE IF IsAnyInstance(k, {"ConfigurationError", "BulkWriteError"})
             THEN Raise(NotCallable)
         ELSE out

\* A bug of the kind `except ...: return 0`: the failure is swallowed
update_swallowing_decorator(out) == IF out.tag = "return" THEN out ELSE Return(0)

update_exceptions_decorator(out) ==
    IF out.tag = "return" THEN out
    ELSE LET k == out.exc.kind IN
         IF IsInstance(k, "DuplicateKeyError")
             THEN Raise(Exc("DuplicateKeyError", "update"))
         ELSE IF IsAnyInstance(k, {"CursorNotFound", "OperationFailure",
                                   "WriteConcernError", "InvalidOperation"})
             THEN Raise(Exc(k, "update"))
         ELSE IF IsAnyInstance(k, {"ConfigurationError", "BulkWriteError"})
             THEN Raise(Exc("ConfigurationError", "update"))
         ELSE IF IsInstance(k, "DocumentTooLarge")
             THEN Raise(Exc("DocumentTooLarge", "update"))
         ELSE out

index_exceptions_decorator(out) ==
    IF out.tag = "return" THEN out
    ELSE LET k == out.exc.kind IN
         IF IsInstance(k, "DuplicateKeyError")
             THEN Raise(Exc("DuplicateKeyError", "index"))
         ELSE IF IsAnyInstance(k, {"OperationFailure", "WriteConcernError", "InvalidOperation"})
             THEN Raise(NotCallable)
         ELSE IF IsAnyInstance(k, {"ConfigurationError", "DocumentTooLarge"})
             THEN Raise(NotCallable)
         ELSE out

(***************************************************************************)
(* MongoConnectionHandler                                                  *)
(***************************************************************************)
ConnInit ==
    /\ client = None
    /\ db_connection = None
    /\ liveClients = {}
    /\ created = 0
    /\ connResult = [call |-> "init", tag |-> "return", val |-> None]

get_connection == db_connection

get_client == client

\* What MongoClient(connection_string) may do.
ConnectOutcomes == {"ok", "ServerSelectionTimeoutError", "ConnectionFailure"}

\* connect(): `outcome` is what the MongoClient constructor does.  The
\* assignment of line 30 happens only when the constructor returns; line 31
\* is a name lookup on the new client.
connect(outcome) ==
    /\ created < MaxClients
    /\ IF outcome = "ok"
       THEN /\ client' = created + 1
            /\ db_connection' = created + 1
            /\ liveClients' = liveClients \cup {created + 1}
            /\ created' = created + 1
            /\ connResult' = [call |-> "connect", tag |-> "return", val |-> None]
       ELSE /\ UNCHANGED <<client, db_connection, liveClients, created>>
            /\ connResult' = [call |-> "connect", tag |-> "raise",
                              exc |-> Exc(outcome, "connect")]
    /\ UNCHANGED repoVars

Connect == \E outcome \in ConnectOutcomes : connect(outcome)

\* A variant that forgets the handles after close():
\* `self.__client = None; self.__db_connection = None`
disconnect_and_forget ==
    /\ IF client = None
       THEN /\ connResult' = [call |-> "disconnect", tag |-> "raise",
                              exc |-> Exc("AttributeError", "builtin")]
            /\ UNCHANGED liveClients
       ELSE /\ liveClients' = liveClients \ {client}
            /\ connResult' = [call |-> "disconnect", tag |-> "return", val |-> None]
    /\ client' = None
    /\ db_connection' = None
    /\ UNCHANGED created
    /\ UNCHANGED repoVars

\* disconnect_from_mongodb(): self.__client.close(); None has no close().
disconnect_from_mongodb ==
    /\ IF client = None
       THEN /\ connResult' = [call |-> "disconnect", tag |-> "raise",
                              exc |-> Exc("AttributeError", "builtin")]
            /\ UNCHANGED liveClients
       ELSE /\ liveClients' = liveClients \ {client}
            /\ connResult' = [call |-> "disconnect", tag |-> "return", val |-> None]
    /\ UNCHANGED <<client, db_connection, created>>
    /\ UNCHANGED repoVars

\* A caller reads the client handle.
GetClient ==
    /\ connResult' = [call |-> "get_client", tag |-> "return", val |-> get_client]
    /\ UNCHANGED <<client, db_connection, liveClients, created>>
    /\ UNCHANGED repoVars

\* A caller reads the database handle.
GetConnection ==
    /\ connResult' = [call |-> "get_connection", tag |-> "return", val |-> get_connection]
    /\ UNCHANGED <<client, db_connection, liveClients, created>>
    /\ UNCHANGED repoVars

ConnNext == Connect \/ disconnect_from_mongodb \/ GetClient \/ GetConnection

(***************************************************************************)
(* Repository: state and __get_collection                                  *)
(***************************************************************************)
RepoInit ==
    /\ docs = << >>
    /\ before = << >>
    /\ indexes = {}
    /\ inserted = 0
    /\ op = "init"
    /\ args = << >>
    /\ driver = [resolve |-> "ok", at |-> 0, kind |-> "none"]
    /\ requests = << >>
    /\ result = Return(None)

\* What db_connection.get_collection(name) may do.
ResolveOutcomes == {"ok", "OperationFailure", "InvalidName"}

\* __get_collection(): an OperationFailure of the driver is re-raised as an
\* OperationFailure with the accessor's own message; anything else passes.
get_collection(res) ==
    IF res = "ok" THEN Return("collection")
    ELSE IF IsInstance(res, "OperationFailure")
        THEN Raise(Exc("OperationFailure", "collect"))
    ELSE Raise(Exc(res, "raw"))

\* The store call that fails during a method call, if any: the at-th call
\* raises kind; at = 0 when every store call succeeds.
NoFail == [at |-> 0, kind |-> "none"]

StoreFails(n) == {NoFail} \cup {[at |-> k, kind |-> e] : k \in 1..n, e \in StoreErrors}

\* What the driver did during a call that issued the requests reqs: the
\* failure is recorded when a store request raised it.
Driver(res, fail, reqs) ==
    IF \E i \in 1..Len(reqs) : ~reqs[i].ok
    THEN [resolve |-> res, at |-> fail.at, kind |-> fail.kind]
    ELSE [resolve |-> res, at |-> 0, kind |-> "none"]

(***************************************************************************)
(* Index management                                                        *)
(***************************************************************************)
Fields == {"a", "b"}

Orders == {1, -1, 2}

NoExpire == -1

\* collection.create_index(keys, expireAfterSeconds=expire) as a request
IndexRequest(keys, expire, ok) ==
    [call |-> "create_index", keys |-> keys, expire |-> expire, ok |-> ok]

IndexOf(keys, expire) == [keys |-> keys, expire |-> expire]

\* Time unit names are sequences of characters.
UpperToLower ==
    [c \in {"A", "B", "C", "D", "E", "F", "G", "H", "I", "J", "K", "L", "M",
            "N", "O", "P", "Q", "R", "S", "T", "U", "V", "W", "X", "Y", "Z"} |->
        CASE c = "A" -> "a" [] c = "B" -> "b" [] c = "C" -> "c" [] c = "D" -> "d"
          [] c = "E" -> "e" [] c = "F" -> "f" [] c = "G" -> "g" [] c = "H" -> "h"
          [] c = "I" -> "i" [] c = "J" -> "j" [] c = "K" -> "k" [] c = "L" -> "l"
          [] c = "M" -> "m" [] c = "N" -> "n" [] c = "O" -> "o" [] c = "P" -> "p"
          [] c = "Q" -> "q" [] c = "R" -> "r" [] c = "S" -> "s" [] c = "T" -> "t"
          [] c = "U" -> "u" [] c = "V" -> "v" [] c = "W" -> "w" [] c = "X" -> "x"
          [] c = "Y" -> "y" [] c = "Z" -> "z"]

\* A bug of the kind `time_units.get(time_metric)`: the name is not folded.
LowerNoFold(s) == s

\* str.lower()
Lower(s) ==
    [i \in 1..Len(s) |-> IF s[i] \in DOMAIN UpperToLower THEN UpperToLower[s[i]] ELSE s[i]]

\* The time_units dictionary: total_seconds() of each timedelta.
time_units ==
    [n \in {<<"s", "e", "c", "o", "n", "d", "s">>, <<"m", "i", "n", "u", "t", "e", "s">>,
            <<"h", "o", "u", "r", "s">>, <<"d", "a", "y", "s">>} |->
        CASE n = <<"s", "e", "c", "o", "n", "d", "s">> -> 1
          [] n = <<"m", "i", "n", "u", "t", "e", "s">> -> 60
          [] n = <<"h", "o", "u", "r", "s">> -> 3600
          [] n = <<"d", "a", "y", "s">> -> 86400]

\* The inputs tried for time_metric, time_to_live and name_index.
TimeMetrics == {<<"s", "e", "c", "o", "n", "d", "s">>, <<"m", "i", "n", "u", "t", "e", "s">>,
                <<"M", "I", "N", "U", "T", "E", "S">>, <<"H", "o", "u", "r", "s">>,
                <<"d", "a", "y", "S">>, <<"b", "o", "g", "u", "s">>,
                <<"m", "i", "n", "u", "t", "e">>}

Magnitudes == {1, 5}

IndexNames == {"expiresAt"}

\* Body of create_new_index_ttl: [out, indexes, requests].
create_new_index_ttl_body(time_metric, time_to_live, name_index, order_by, res, fail) ==
    LET collection == get_collection(res)
        name == Lower(time_metric)
    IN  IF collection.tag = "raise"
            THEN [out |-> collection, indexes |-> indexes, requests |-> << >>]
        ELSE IF name \in DOMAIN time_units
            THEN IF order_by \in {1, -1}
                 THEN LET expire == time_to_live * time_units[name]
                          keys == << <<name_index, order_by>> >>
                      IN  IF fail.at = 1
                          THEN [out |-> Raise(Exc(fail.kind, "raw")),
                                indexes |-> indexes,
                                requests |-> <<IndexRequest(keys, expire, FALSE)>>]
                          ELSE [out |-> Return(TRUE),
                                indexes |-> indexes \cup {IndexOf(keys, expire)},
                                requests |-> <<IndexRequest(keys, expire, TRUE)>>]
                 ELSE [out |-> Raise(Exc("ValueError", "value")),
                       indexes |-> indexes, requests |-> << >>]
        ELSE [out |-> Raise(Exc("ValueError", "value")),
              indexes |-> indexes, requests |-> << >>]

create_new_index_ttl(time_metric, time_to_live, name_index, order_by, res, fail) ==
    LET b == create_new_index_ttl_body(time_metric, time_to_live, name_index,
                                       order_by, res, fail)
    IN  /\ Cardinality(indexes) < MaxIndexes
        /\ op' = "create_new_index_ttl"
        /\ args' = [time_metric |-> time_metric, time_to_live |-> time_to_live,
                    name_index |-> name_index, order_by |-> order_by]
        /\ driver' = Driver(res, fail, b.requests)
        /\ indexes' = b.indexes
        /\ requests' = b.requests
        /\ result' = index_exceptions_decorator(b.out)
        /\ before' = docs
        /\ UNCHANGED <<docs, inserted>>
        /\ UNCHANGED connVars

\* For the index methods: a store failure of a kind the decorator catches
\* at either request, one of a kind it lets pass, and a failure to resolve.
IndexChoices ==
    {<<"ok", NoFail>>,
     <<"ok", [at |-> 1, kind |-> "OperationFailure"]>>,
     <<"ok", [at |-> 2, kind |-> "DuplicateKeyError"]>>,
     <<"ok", [at |-> 1, kind |-> "InvalidName"]>>,
     <<"OperationFailure", NoFail>>}

CreateNewIndexTtl ==
    \E time_metric \in TimeMetrics, time_to_live \in Magnitudes,
       name_index \in IndexNames, order_by \in Orders, c \in IndexChoices :
        /\ c[2].at <= 1
        /\ create_new_index_ttl(time_metric, time_to_live, name_index, order_by, c[1], c[2])

\* A dict is the sequence of its (key, value) pairs in iteration order.
DictsOver(keys, values) ==
    {<< <<k, v>> >> : k \in keys, v \in values}
    \cup {d \in {<< <<k1, v1>>, <<k2, v2>> >> :
                    k1 \in keys, v1 \in values, k2 \in keys, v2 \in values} :
            d[1][1] # d[2][1]}

RECURSIVE create_new_index_loop(_, _, _, _, _)
\* for key, order in index_dict.items(): from pair i on, with the indexes
\* idx and the requests reqs made so far.
create_new_index_loop(index_dict, i, idx, reqs, fail) ==
    IF i > Len(index_dict)
        THEN [out |-> Return(TRUE), indexes |-> idx, requests |-> reqs]
    ELSE LET key == index_dict[i][1]
             order == index_dict[i][2]
             keys == << <<key, order>> >>
         IN  IF order \notin {-1, 1}
                 THEN [out |-> Raise(Exc("ValueError", "value")),
                       indexes |-> idx, requests |-> reqs]
             ELSE IF fail.at = Len(reqs) + 1
                 THEN [out |-> Raise(Exc(fail.kind, "raw")), indexes |-> idx,
                       requests |-> Append(reqs, IndexRequest(keys, NoExpire, FALSE))]
             ELSE create_new_index_loop(index_dict, i + 1,
                       idx \cup {IndexOf(keys, NoExpire)},
                       Append(reqs, IndexRequest(keys, NoExpire, TRUE)), fail)

create_new_index_body(index_dict, res, fail) ==
    LET collection == get_collection(res)
    IN  IF collection.tag = "raise"
            THEN [out |-> collection, indexes |-> indexes, requests |-> << >>]
        ELSE create_new_index_loop(index_dict, 1, indexes, << >>, fail)

create_new_index(index_dict, res, fail) ==
    LET b == create_new_index_body(index_dict, res, fail)
    IN  /\ Cardinality(indexes) < MaxIndexes
        /\ op' = "create_new_index"
        /\ args' = [index_dict |-> index_dict]
        /\ driver' = Driver(res, fail, b.requests)
        /\ indexes' = b.indexes
        /\ requests' = b.requests
        /\ result' = index_exceptions_decorator(b.out)
        /\ before' = docs
        /\ UNCHANGED <<docs, inserted>>
        /\ UNCHANGED connVars

CreateNewIndex ==
    \E index_dict \in DictsOver(Fields, Orders), c \in IndexChoices :
        /\ c[2].at <= Len(index_dict)
        /\ create_new_index(index_dict, c[1], c[2])

(***************************************************************************)
(* The store's documents.  A document is a record with the identity field  *)
(* id (the store's _id) and the fields a and b; a dict argument (filter,   *)
(* properties, key_and_number, return_options) is the sequence of its      *)
(* (key, value) pairs in iteration order.                                  *)
(***************************************************************************)
Vals == 0..MaxVal

\* The documents a caller passes to insert.
Documents == [a : Vals, b : Vals]

InRange(ds) == \A i \in 1..Len(ds) : ds[i].a \in Vals /\ ds[i].b \in Vals

\* An identity value (bson ObjectId) is 12 bytes; its string form is the 24
\* hexadecimal digits of the bytes, in lower case.
ObjectIdLen == 24

HexDigits == {"0", "1", "2", "3", "4", "5", "6", "7", "8", "9",
              "a", "b", "c", "d", "e", "f", "A", "B", "C", "D", "E", "F"}

DigitOf(n) ==
    CASE n = 0 -> "0" [] n = 1 -> "1" [] n = 2 -> "2" [] n = 3 -> "3" [] n = 4 -> "4"
      [] n = 5 -> "5" [] n = 6 -> "6" [] n = 7 -> "7" [] n = 8 -> "8" [] n = 9 -> "9"
      [] n = 10 -> "a" [] n = 11 -> "b" [] n = 12 -> "c" [] n = 13 -> "d"
      [] n = 14 -> "e" [] n = 15 -> "f"

HexVal(c) ==
    CASE c = "0" -> 0 [] c = "1" -> 1 [] c = "2" -> 2 [] c = "3" -> 3 [] c = "4" -> 4
      [] c = "5" -> 5 [] c = "6" -> 6 [] c = "7" -> 7 [] c = "8" -> 8 [] c = "9" -> 9
      [] c \in {"a", "A"} -> 10 [] c \in {"b", "B"} -> 11 [] c \in {"c", "C"} -> 12
      [] c \in {"d", "D"} -> 13 [] c \in {"e", "E"} -> 14 [] c \in {"f", "F"} -> 15

\* The identity the store gives the n-th inserted document: its first byte
\* is 171 (ab), its last byte counts the inserts.
NewObjectId(n) ==
    [i \in 1..(ObjectIdLen \div 2) |->
        IF i = 1 THEN 171 ELSE IF i = ObjectIdLen \div 2 THEN n % 256 ELSE 0]

\* str(oid)
ObjectIdStr(oid) ==
    [i \in 1..ObjectIdLen |->
        IF i % 2 = 1 THEN DigitOf(oid[(i + 1) \div 2] \div 16)
        ELSE DigitOf(oid[i \div 2] % 16)]

\* bson ObjectId.is_valid for a str
ObjectIdIsValid(s) == Len(s) = ObjectIdLen /\ \A i \in 1..Len(s) : s[i] \in HexDigits

\* ObjectId(object_id): the 12 bytes the hexadecimal digits spell
ObjectId(s) ==
    [i \in 1..(ObjectIdLen \div 2) |-> 16 * HexVal(s[2 * i - 1]) + HexVal(s[2 * i])]

\* Does document d satisfy the filter dict (equality on every key)?
Matches(d, filter) == \A i \in 1..Len(filter) : d[filter[i][1]] = filter[i][2]

\* Positions of the documents of ds that satisfy the filter, ascending.
Matching(ds, filter) == {i \in 1..Len(ds) : Matches(ds[i], filter)}

\* The store's find(filter): the matching documents in store order.
Find(ds, filter) == SelectSeq(ds, LAMBDA d : Matches(d, filter))

\* The store's find({"$or": filters})
FindOr(ds, filters) ==
    SelectSeq(ds, LAMBDA d : \E i \in 1..Len(filters) : Matches(d, filters[i]))

\* return_options: NoOptions for None, else a dict field -> 1 (include) or
\* 0 (exclude id); the identity is included unless excluded.
NoOptions == << <<"None", 0>> >>

Project(d, return_options) ==
    IF return_options = NoOptions THEN d
    ELSE LET named(f, flag) == \E i \in 1..Len(return_options) :
                                  return_options[i] = <<f, flag>>
             keep == {f \in DOMAIN d : named(f, 1) \/ (f = "id" /\ ~named("id", 0))}
         IN  [f \in keep |-> d[f]]

ProjectAll(ds, return_options) == [i \in 1..Len(ds) |-> Project(ds[i], return_options)]

RECURSIVE Before(_, _, _, _)
\* Does d1 sort strictly before d2 under order_by, from its i-th pair on?
Before(d1, d2, order_by, i) ==
    IF i > Len(order_by) THEN FALSE
    ELSE LET f == order_by[i][1]
             dir == order_by[i][2]
         IN  IF d1[f] = d2[f] THEN Before(d1, d2, order_by, i + 1)
             ELSE IF dir = 1 THEN d1[f] < d2[f] ELSE d1[f] > d2[f]

RECURSIVE Sort(_, _)
\* cursor.sort(order_by): stable, by the pairs of order_by in precedence order
Sort(ds, order_by) ==
    IF Len(ds) <= 1 THEN ds
    ELSE LET front == Sort(SubSeq(ds, 1, Len(ds) - 1), order_by)
             d == ds[Len(ds)]
             later == {j \in 1..Len(front) : Before(d, front[j], order_by, 1)}
             at == IF later = {} THEN Len(front) + 1
                   ELSE CHOOSE j \in later : \A k \in later : j <= k
         IN  SubSeq(front, 1, at - 1) \o <<d>> \o SubSeq(front, at, Len(front))

\* One document after the update {query: properties}.
ApplyUpdate(d, query, properties) ==
    LET named(f) == {i \in 1..Len(properties) : properties[i][1] = f}
        value(f) == properties[CHOOSE i \in named(f) : TRUE][2]
    IN  [f \in DOMAIN d |->
            IF named(f) = {} THEN d[f]
            ELSE IF query = "$inc" THEN d[f] + value(f)
            ELSE value(f)]

\* A bug of the kind `return response.matched_count`: every document the
\* filter selected is counted, changed or not.
UpdateAtMatched(ds, at, query, properties) ==
    [docs |-> [i \in 1..Len(ds) |->
                  IF i \in at THEN ApplyUpdate(ds[i], query, properties) ELSE ds[i]],
     modified_count |-> Cardinality(at)]

\* The store's update_many / update_one: the documents at the positions
\* `at` are updated; modified_count counts those that changed.
UpdateAt(ds, at, query, properties) ==
    [docs |-> [i \in 1..Len(ds) |->
                  IF i \in at THEN ApplyUpdate(ds[i], query, properties) ELSE ds[i]],
     modified_count |-> Cardinality({i \in at : ApplyUpdate(ds[i], query, properties) # ds[i]})]

First(set) == IF set = {} THEN {} ELSE {CHOOSE i \in set : \A j \in set : i <= j}

\* The store's delete: the documents at the positions `at` are removed.
DeleteAt(ds, at) ==
    LET keep == {i \in 1..Len(ds) : i \notin at}
        RECURSIVE Rest(_)
        Rest(i) == IF i > Len(ds) THEN << >>
                   ELSE IF i \in keep THEN <<ds[i]>> \o Rest(i + 1) ELSE Rest(i + 1)
    IN  Rest(1)

\* A request to the store, as the log of a call keeps it: ok tells whether
\* the store accepted it, response what it answered (None when it raised).
Request(call, filter, update, ok, response) ==
    [call |-> call, filter |-> filter, update |-> update, ok |-> ok,
     response |-> response]

\* The outcome of a method body: what it returns or raises, the documents
\* of the store afterwards, the requests issued.
Body(out, ds, reqs) == [out |-> out, docs |-> ds, requests |-> reqs]

\* A method that resolves the collection, issues one request and returns:
\* `out` and `ds` are the return value and the documents when the store
\* accepts the request.
OneRequest(res, fail, call, filter, update, out, ds) ==
    LET collection == get_collection(res)
    IN  IF collection.tag = "raise" THEN Body(collection, docs, << >>)
        ELSE IF fail.at = 1
            THEN Body(Raise(Exc(fail.kind, "raw")), docs,
                      <<Request(call, filter, update, FALSE, None)>>)
        ELSE Body(Return(out), ds, <<Request(call, filter, update, TRUE, out)>>)

\* The state after a call of a method on documents.
Called(name, a, res, fail, b, outcome) ==
    /\ op' = name
    /\ args' = a
    /\ driver' = Driver(res, fail, b.requests)
    /\ docs' = b.docs
    /\ before' = docs
    /\ inserted' = inserted + (IF Len(b.docs) > Len(docs) THEN Len(b.docs) - Len(docs) ELSE 0)
    /\ requests' = b.requests
    /\ result' = outcome
    /\ UNCHANGED indexes
    /\ UNCHANGED connVars

Stored(document, n) == [id |-> NewObjectId(n), a |-> document.a, b |-> document.b]

(***************************************************************************)
(* Insert                                                                  *)
(***************************************************************************)
\* A bug of the kind `stored = dict(document)` ... `return document`: the
\* value returned is not the dict the store gave its _id.
insert_one_document_copy_body(document, res, fail) ==
    LET stored == Stored(document, inserted + 1)
    IN  OneRequest(res, fail, "insert_one", << >>, <<document>>,
                   document, Append(docs, stored))

\* insert_one gives the passed dict its _id; the method returns that dict.
insert_one_document_body(document, res, fail) ==
    LET stored == Stored(document, inserted + 1)
    IN  OneRequest(res, fail, "insert_one", << >>, <<document>>,
                   stored, Append(docs, stored))

insert_one_document(document, res, fail) ==
    LET b == insert_one_document_body(document, res, fail)
    IN  /\ inserted < MaxDocs
        /\ Called("insert_one_document",
                  [document |-> document],
                  res, fail, b, insert_exceptions_decorator(b.out))

\* insert_many is ordered: when the store fails, the first `done` documents
\* of the list have been written.
insert_list_of_documents_body(list_of_documents, res, fail, done) ==
    LET stored == [i \in 1..Len(list_of_documents) |->
                      Stored(list_of_documents[i], inserted + i)]
        collection == get_collection(res)
    IN  IF collection.tag = "raise" THEN Body(collection, docs, << >>)
        ELSE IF fail.at = 1
            THEN Body(Raise(Exc(fail.kind, "raw")), docs \o SubSeq(stored, 1, done),
                      <<Request("insert_many", << >>, list_of_documents, FALSE, None)>>)
        ELSE Body(Return(stored), docs \o stored,
                  <<Request("insert_many", << >>, list_of_documents, TRUE, stored)>>)

insert_list_of_documents(list_of_documents, res, fail, done) ==
    LET b == insert_list_of_documents_body(list_of_documents, res, fail, done)
    IN  /\ inserted + Len(list_of_documents) <= MaxDocs
        /\ Called("insert_list_of_documents",
                  [list_of_documents |-> list_of_documents],
                  res, fail, b, insert_exceptions_decorator(b.out))

(***************************************************************************)
(* Select                                                                  *)
(***************************************************************************)
FindOptions(return_options, order_by) == [return_options |-> return_options, sort |-> order_by]

NoOrder == << >>

select_many_documents_body(search_filter, return_options, res, fail) ==
    OneRequest(res, fail, "find", search_filter, FindOptions(return_options, NoOrder),
               ProjectAll(Find(docs, search_filter), return_options), docs)

select_many_documents(search_filter, return_options, res, fail) ==
    LET b == select_many_documents_body(search_filter, return_options, res, fail)
    IN  /\ Called("select_many_documents",
                  [search_filter |-> search_filter, return_options |-> return_options],
                  res, fail, b, select_exceptions_decorator(b.out))

\* find_one: the first matching document, None when there is none.
FindOne(ds, filter, return_options) ==
    IF Find(ds, filter) = << >> THEN None
    ELSE Project(Find(ds, filter)[1], return_options)

select_one_document_body(search_filter, return_options, res, fail) ==
    OneRequest(res, fail, "find_one", search_filter, FindOptions(return_options, NoOrder),
               FindOne(docs, search_filter, return_options), docs)

select_one_document(search_filter, return_options, res, fail) ==
    LET b == select_one_document_body(search_filter, return_options, res, fail)
    IN  /\ Called("select_one_document",
                  [search_filter |-> search_filter, return_options |-> return_options],
                  res, fail, b, select_exceptions_decorator(b.out))

select_many_by_order_body(search_filter, order_by, return_options, res, fail) ==
    OneRequest(res, fail, "find", search_filter, FindOptions(return_options, order_by),
               ProjectAll(Sort(Find(docs, search_filter), order_by), return_options), docs)

select_many_by_order(search_filter, order_by, return_options, res, fail) ==
    LET b == select_many_by_order_body(search_filter, order_by, return_options, res, fail)
    IN  /\ Called("select_many_by_order",
                  [search_filter |-> search_filter, order_by |-> order_by,
                    return_options |-> return_options],
                  res, fail, b, select_exceptions_decorator(b.out))

\* ObjectId(object_id) is evaluated after the collection is resolved and
\* before find_one is called; a malformed string raises bson's InvalidId.
select_by_object_id_body(object_id, return_options, res, fail) ==
    LET collection == get_collection(res)
    IN  IF collection.tag = "raise" THEN Body(collection, docs, << >>)
        ELSE IF ~ObjectIdIsValid(object_id)
            THEN Body(Raise(Exc("InvalidId", "raw")), docs, << >>)
        ELSE OneRequest(res, fail, "find_one", << <<"id", ObjectId(object_id)>> >>,
                        FindOptions(return_options, NoOrder),
                        FindOne(docs, << <<"id", ObjectId(object_id)>> >>, return_options),
                        docs)

select_by_object_id(object_id, return_options, res, fail) ==
    LET b == select_by_object_id_body(object_id, return_options, res, fail)
    IN  /\ Called("select_by_object_id",
                  [object_id |-> object_id, return_options |-> return_options],
                  res, fail, b, select_exceptions_decorator(b.out))

\* order_by is NoOrder for None.
search_many_or_body(search_filter, return_options, order_by, res, fail) ==
    LET found == FindOr(docs, search_filter)
        sorted == IF order_by = NoOrder THEN found ELSE Sort(found, order_by)
    IN  OneRequest(res, fail, "find", << <<"$or", search_filter>> >>,
                   FindOptions(return_options, order_by),
                   ProjectAll(sorted, return_options), docs)

search_many_or(search_filter, return_options, order_by, res, fail) ==
    LET b == search_many_or_body(search_filter, return_options, order_by, res, fail)
    IN  /\ Called("search_many_or",
                  [search_filter |-> search_filter, return_options |-> return_options,
                    order_by |-> order_by],
                  res, fail, b, select_exceptions_decorator(b.out))

(***************************************************************************)
(* Update                                                                  *)
(***************************************************************************)
\* query is NoQuery for None.
NoQuery == "None"

UpdateDoc(query, properties) ==
    [query |-> IF query = NoQuery THEN "$set" ELSE query, properties |-> properties]

update_one_registry_body(search_filter, properties, query, res, fail) ==
    LET u == UpdateDoc(query, properties)
        r == UpdateAt(docs, First(Matching(docs, search_filter)), u.query, u.properties)
    IN  OneRequest(res, fail, "update_one", search_filter, u, r.modified_count, r.docs)

update_one_registry(search_filter, properties, query, res, fail) ==
    LET b == update_one_registry_body(search_filter, properties, query, res, fail)
    IN  /\ InRange(b.docs)
        /\ Called("update_one_registry",
                  [search_filter |-> search_filter, properties |-> properties,
                    query |-> query],
                  res, fail, b, update_exceptions_decorator(b.out))

update_many_registries_body(search_filter, properties, query, res, fail) ==
    LET u == UpdateDoc(query, properties)
        r == UpdateAt(docs, Matching(docs, search_filter), u.query, u.properties)
    IN  OneRequest(res, fail, "update_many", search_filter, u, r.modified_count, r.docs)

update_many_registries(search_filter, properties, query, res, fail) ==
    LET b == update_many_registries_body(search_filter, properties, query, res, fail)
    IN  /\ InRange(b.docs)
        /\ Called("update_many_registries",
                  [search_filter |-> search_filter, properties |-> properties,
                    query |-> query],
                  res, fail, b, update_exceptions_decorator(b.out))

\* A value of key_and_number: its Python type and, for an int, the number.
Int_(n) == [type |-> "int", val |-> n]

Str_ == [type |-> "str", val |-> 0]

\* A bug of the kind `modified_count = response.modified_count`
AddCountLast(modified_count, response_count) == response_count

\* modified_count += response.modified_count
AddCount(modified_count, response_count) == modified_count + response_count

RECURSIVE update_many_with_increment_loop(_, _, _, _, _, _, _)
\* for key, number in key_and_number.items(): from pair i on, with the
\* documents ds, the requests reqs and the modified_count so far.
update_many_with_increment_loop(search_filter, key_and_number, i, ds, reqs, modified_count, fail) ==
    IF i > Len(key_and_number) THEN Body(Return(modified_count), ds, reqs)
    ELSE LET key == key_and_number[i][1]
             number == key_and_number[i][2]
             u == [query |-> "$inc", properties |-> << <<key, number.val>> >>]
             r == UpdateAt(ds, Matching(ds, search_filter), u.query, u.properties)
         IN  IF number.type \notin {"int", "float"}
                 THEN Body(Raise(Exc("ValueError", "value")), ds, reqs)
             ELSE IF fail.at = Len(reqs) + 1
                 THEN Body(Raise(Exc(fail.kind, "raw")), ds,
                           Append(reqs, Request("update_many", search_filter, u, FALSE, None)))
             ELSE update_many_with_increment_loop(search_filter, key_and_number, i + 1,
                      r.docs,
                      Append(reqs, Request("update_many", search_filter, u, TRUE,
                                           r.modified_count)),
                      AddCount(modified_count, r.modified_count), fail)

update_many_with_increment_body(search_filter, key_and_number, res, fail) ==
    LET collection == get_collection(res)
    IN  IF collection.tag = "raise" THEN Body(collection, docs, << >>)
        ELSE update_many_with_increment_loop(search_filter, key_and_number, 1, docs,
                                             << >>, 0, fail)

update_many_with_increment(search_filter, key_and_number, res, fail) ==
    LET b == update_many_with_increment_body(search_filter, key_and_number, res, fail)
    IN  /\ InRange(b.docs)
        /\ Called("update_many_with_increment",
                  [search_filter |-> search_filter, key_and_number |-> key_and_number],
                  res, fail, b, update_exceptions_decorator(b.out))

(***************************************************************************)
(* Delete                                                                  *)
(***************************************************************************)
delete_registry_body(search_filter, res, fail) ==
    LET at == First(Matching(docs, search_filter))
    IN  OneRequest(res, fail, "delete_one", search_filter, << >>,
                   Cardinality(at), DeleteAt(docs, at))

delete_registry(search_filter, res, fail) ==
    LET b == delete_registry_body(search_filter, res, fail)
    IN  /\ Called("delete_registry",
                  [search_filter |-> search_filter],
                  res, fail, b, delete_exceptions_decorator(b.out))

delete_many_registries_body(search_filter, res, fail) ==
    LET at == Matching(docs, search_filter)
    IN  OneRequest(res, fail, "delete_many", search_filter, << >>,
                   Cardinality(at), DeleteAt(docs, at))

delete_many_registries(search_filter, res, fail) ==
    LET b == delete_many_registries_body(search_filter, res, fail)
    IN  /\ Called("delete_many_registries",
                  [search_filter |-> search_filter],
                  res, fail, b, delete_exceptions_decorator(b.out))

IdxNext == CreateNewIndexTtl \/ CreateNewIndex

(***************************************************************************)
(* The calls tried on documents                                            *)
(***************************************************************************)
Filters == {<< >>, << <<"a", 0>> >>, << <<"b", 1>> >>}

\* What the driver does during a call with at most n store requests.
DriverChoices(n) ==
    {<<res, fail>> \in ResolveOutcomes \X StoreFails(n) : res # "ok" => fail = NoFail}

InsertOne ==
    \E document \in Documents,
       c \in {<<"ok", NoFail>>, <<"ok", [at |-> 1, kind |-> "DuplicateKeyError"]>>} :
        insert_one_document(document, c[1], c[2])

\* The key_and_number dicts tried: increments, decrements and zero, one or
\* two keys in either order, a value that is no number at either position.
IncDicts ==
    {<< <<"a", Int_(1)>> >>,
     << <<"b", Int_(-1)>> >>,
     << <<"a", Str_>> >>,
     << <<"a", Int_(1)>>, <<"b", Int_(1)>> >>,
     << <<"b", Int_(1)>>, <<"a", Int_(-1)>> >>,
     << <<"a", Int_(1)>>, <<"b", Int_(-1)>> >>,
     << <<"a", Int_(0)>>, <<"b", Int_(1)>> >>,
     << <<"a", Int_(1)>>, <<"b", Str_>> >>,
     << <<"b", Str_>>, <<"a", Int_(1)>> >>}

\* For the loop: a store failure at either request, one of a kind the
\* decorator lets pass and one of a kind it catches, and a failure to resolve.
LoopChoices ==
    {<<"ok", NoFail>>,
     <<"ok", [at |-> 1, kind |-> "InvalidName"]>>,
     <<"ok", [at |-> 2, kind |-> "OperationFailure"]>>,
     <<"OperationFailure", NoFail>>}

UpdateManyWithIncrement ==
    \E search_filter \in Filters, key_and_number \in IncDicts, c \in LoopChoices :
        /\ c[2].at <= Len(key_and_number)
        /\ update_many_with_increment(search_filter, key_and_number, c[1], c[2])

IncNext == InsertOne \/ UpdateManyWithIncrement

\* The (properties, query) pairs tried for the two update methods: the
\* default query ($set) on one field, on the filter's field and on both
\* fields, and $inc.
UpdCalls ==
    {<< << <<"b", 1>> >>, NoQuery >>,
     << << <<"a", 0>> >>, NoQuery >>,
     << << <<"a", 1>>, <<"b", 1>> >>, NoQuery >>,
     << << <<"b", 1>> >>, "$inc" >>}

UpdChoices ==
    {<<"ok", NoFail>>,
     <<"ok", [at |-> 1, kind |-> "OperationFailure"]>>,
     <<"OperationFailure", NoFail>>}

UpdateOneRegistry ==
    \E search_filter \in Filters, u \in UpdCalls, c \in UpdChoices :
        update_one_registry(search_filter, u[1], u[2], c[1], c[2])

UpdateManyRegistries ==
    \E search_filter \in Filters, u \in UpdCalls, c \in UpdChoices :
        update_many_registries(search_filter, u[1], u[2], c[1], c[2])

UpdNext == InsertOne \/ UpdateOneRegistry \/ UpdateManyRegistries

\* The return_options tried: None, and a projection on a without the _id.
FewOptions == {NoOptions, << <<"a", 1>>, <<"id", 0>> >>}

\* The object_id strings tried: the string form of the identity of each
\* document the store may hold, the same in upper case for the first, a
\* string that is too short and one of the right length with a character
\* that is no hexadecimal digit.
NotAValidId == <<"n", "o", "t", "-", "a", "-", "v", "a", "l", "i", "d", "-", "i", "d">>

NotHex == [i \in 1..ObjectIdLen |-> IF i = 1 THEN "g" ELSE "0"]

\* str.upper() on hexadecimal digits
Upper(s) ==
    [i \in 1..Len(s) |->
        CASE s[i] = "a" -> "A" [] s[i] = "b" -> "B" [] s[i] = "c" -> "C"
          [] s[i] = "d" -> "D" [] s[i] = "e" -> "E" [] s[i] = "f" -> "F"
          [] OTHER -> s[i]]

ObjectIdStrings ==
    {ObjectIdStr(NewObjectId(n)) : n \in 1..MaxDocs}
    \cup {Upper(ObjectIdStr(NewObjectId(1))), NotAValidId, NotHex}

SelChoices ==
    {<<"ok", NoFail>>,
     <<"ok", [at |-> 1, kind |-> "OperationFailure"]>>,
     <<"ok", [at |-> 1, kind |-> "ConfigurationError"]>>,
     <<"OperationFailure", NoFail>>}

SelectByObjectId ==
    \E object_id \in ObjectIdStrings, return_options \in FewOptions, c \in SelChoices :
        select_by_object_id(object_id, return_options, c[1], c[2])

SelNext == InsertOne \/ SelectByObjectId

(***************************************************************************)
(* Every method of Repository, each on a few arguments.  One method of     *)
(* each category meets every failure of the driver (DriverChoices), the    *)
(* others a failure to resolve of either kind and a store failure of a     *)
(* kind their decorator catches and of one it lets pass (FewChoices).      *)
(***************************************************************************)
FewChoices ==
    {<<"ok", NoFail>>,
     <<"ok", [at |-> 1, kind |-> "OperationFailure"]>>,
     <<"ok", [at |-> 1, kind |-> "InvalidName"]>>,
     <<"ok", [at |-> 2, kind |-> "OperationFailure"]>>,
     <<"OperationFailure", NoFail>>,
     <<"InvalidName", NoFail>>}

FewDocuments == {[a |-> 1, b |-> 0]}

FewFilters == {<< <<"a", 1>> >>}

AnyInsertOne ==
    \E document \in FewDocuments, c \in DriverChoices(1) :
        insert_one_document(document, c[1], c[2])

AnyInsertList ==
    \E c \in {f \in FewChoices : f[2].at <= 1}, done \in 0..1 :
        /\ c[2] = NoFail => done = 0
        /\ insert_list_of_documents(<<[a |-> 0, b |-> 1], [a |-> 1, b |-> 1]>>,
                                    c[1], c[2], done)

AnySelectMany ==
    \E search_filter \in FewFilters, return_options \in {NoOptions}, c \in {f \in FewChoices : f[2].at <= 1} :
        select_many_documents(search_filter, return_options, c[1], c[2])

AnySelectOne ==
    \E search_filter \in FewFilters, return_options \in {NoOptions}, c \in DriverChoices(1) :
        select_one_document(search_filter, return_options, c[1], c[2])

AnySelectByOrder ==
    \E search_filter \in FewFilters, c \in {f \in FewChoices : f[2].at <= 1} :
        select_many_by_order(search_filter, << <<"a", -1>>, <<"b", 1>> >>, NoOptions,
                             c[1], c[2])

AnySelectById ==
    \E object_id \in {ObjectIdStr(NewObjectId(1)), NotAValidId}, return_options \in FewOptions,
       c \in {f \in FewChoices : f[2].at <= 1} :
        select_by_object_id(object_id, return_options, c[1], c[2])

AnySearchOr ==
    \E order_by \in {<< <<"a", 1>> >>}, c \in {f \in FewChoices : f[2].at <= 1} :
        search_many_or(<< << <<"a", 1>> >>, << <<"b", 1>> >> >>, NoOptions, order_by,
                       c[1], c[2])

AnyUpdateOne ==
    \E search_filter \in FewFilters, query \in {NoQuery}, c \in DriverChoices(1) :
        update_one_registry(search_filter, << <<"b", 1>> >>, query, c[1], c[2])

AnyUpdateMany ==
    \E search_filter \in FewFilters, query \in {"$inc"}, c \in {f \in FewChoices : f[2].at <= 1} :
        update_many_registries(search_filter, << <<"b", 1>> >>, query, c[1], c[2])

AnyIncrement ==
    \E key_and_number \in {<< <<"a", Int_(-1)>>, <<"b", Int_(1)>> >>},
       c \in FewChoices :
        update_many_with_increment(<< >>, key_and_number, c[1], c[2])

AnyDeleteOne ==
    \E search_filter \in FewFilters, c \in DriverChoices(1) :
        delete_registry(search_filter, c[1], c[2])

AnyDeleteMany ==
    \E search_filter \in FewFilters, c \in {f \in FewChoices : f[2].at <= 1} :
        delete_many_registries(search_filter, c[1], c[2])

AnyIndexTtl ==
    \E time_metric \in {<<"M", "I", "N", "U", "T", "E", "S">>},
       c \in DriverChoices(1) :
        create_new_index_ttl(time_metric, 5, "expiresAt", 1, c[1], c[2])

AnyIndex ==
    \E index_dict \in {<< <<"a", 1>>, <<"b", -1>> >>},
       c \in FewChoices :
        create_new_index(index_dict, c[1], c[2])

Next ==
    \/ AnyInsertOne \/ AnyInsertList
    \/ AnySelectMany \/ AnySelectOne \/ AnySelectByOrder \/ AnySelectById \/ AnySearchOr
    \/ AnyUpdateOne \/ AnyUpdateMany \/ AnyIncrement
    \/ AnyDeleteOne \/ AnyDeleteMany
    \/ AnyIndexTtl \/ AnyIndex

Init == ConnInit /\ RepoInit

Spec == Init /\ [][Next]_vars

SpecConn == Init /\ [][ConnNext]_vars

SpecIdx == Init /\ [][IdxNext]_vars

SpecInc == Init /\ [][IncNext]_vars

SpecUpd == Init /\ [][UpdNext]_vars

SpecSel == Init /\ [][SelNext]_vars

(***************************************************************************)
(* MongoConnectionHandler: properties                                      *)
(***************************************************************************)
ConnectFailed == connResult.call = "connect" /\ connResult.tag = "raise"

\* C1: whenever connect() has failed with the timeout error or with
\* ConnectionFailure, get_client() and get_connection() both return None,
\* also when an earlier connect() had succeeded.
C1_FailedConnectLeavesUnset ==
    (ConnectFailed /\ connResult.exc.kind \in {"ServerSelectionTimeoutError", "ConnectionFailure"})
        => (get_client = None /\ get_connection = None)

\* C2: at most one client created by the handler is not yet closed.
C2_AtMostOneLiveClient == Cardinality(liveClients) <= 1

(***************************************************************************)
(* Index management: properties                                            *)
(***************************************************************************)
HasBadOrder(index_dict) == \E i \in 1..Len(index_dict) : index_dict[i][2] \notin {1, -1}

StoreAnswered == driver.resolve = "ok" /\ driver.at = 0

\* C5: create_new_index with a direction outside {1, -1} at any position
\* raises the caller error and has issued no index creation to the store.
C5_BadOrderRejectedBeforeStore ==
    (op = "create_new_index" /\ StoreAnswered /\ HasBadOrder(args.index_dict))
        => (result = Raise(Exc("ValueError", "value")) /\ requests = << >>)

\* C8: create_new_index with several keys creates one compound index whose
\* key list is the mapping's pairs in iteration order.
C8_CompoundIndex ==
    (op = "create_new_index" /\ result = Return(TRUE) /\ Len(args.index_dict) > 1)
        => (/\ Len(requests) = 1
            /\ requests[1].keys = args.index_dict)

\* The unit length in seconds of each time_metric spelling tried, 0 for a
\* name that is no unit.
UnitSeconds(m) ==
    CASE m = <<"s", "e", "c", "o", "n", "d", "s">> -> 1
      [] m = <<"m", "i", "n", "u", "t", "e", "s">> -> 60
      [] m = <<"M", "I", "N", "U", "T", "E", "S">> -> 60
      [] m = <<"H", "o", "u", "r", "s">> -> 3600
      [] m = <<"d", "a", "y", "S">> -> 86400
      [] OTHER -> 0

\* C10: for a known unit (in any letter case) and a direction in {1, -1},
\* create_new_index_ttl issues exactly one index creation on the target field
\* with expiry = magnitude * unit length and, the store accepting it, returns
\* True; for an unknown unit or another direction it raises the caller error
\* and issues nothing.
C10_TtlIndex ==
    (op = "create_new_index_ttl" /\ driver.resolve = "ok")
        => IF UnitSeconds(args.time_metric) # 0 /\ args.order_by \in {1, -1}
           THEN /\ Len(requests) = 1
                /\ requests[1].call = "create_index"
                /\ requests[1].keys = << <<args.name_index, args.order_by>> >>
                /\ requests[1].expire = args.time_to_live * UnitSeconds(args.time_metric)
                /\ driver.at = 0 => (/\ result = Return(TRUE)
                                     /\ IndexOf(requests[1].keys, requests[1].expire) \in indexes)
           ELSE /\ result = Raise(Exc("ValueError", "value"))
                /\ requests = << >>

C10_Witness ==
    /\ op = "create_new_index_ttl"
    /\ args.time_metric = <<"M", "I", "N", "U", "T", "E", "S">>
    /\ args.time_to_live = 5
    /\ result = Return(TRUE)
    /\ Len(requests) = 1
    /\ requests[1].expire = 300

(***************************************************************************)
(* Exception wrapping: properties                                          *)
(***************************************************************************)
StoreRaised == driver.resolve = "ok" /\ driver.at > 0

ResolveFailed == op # "init" /\ driver.resolve # "ok"

\* C3: when the store call of any method raises a failure of a recognised
\* kind, the error that reaches the caller is of that same kind.
C3_SameKindReachesCaller ==
    (StoreRaised /\ driver.kind \in RecognizedKinds)
        => (result.tag = "raise" /\ result.exc.kind = driver.kind)

\* C4 as stated: when __get_collection fails, what it raised reaches the
\* caller unchanged, whatever the method.
C4_ResolutionErrorRaw ==
    ResolveFailed => result = get_collection(driver.resolve)

\* The category of each public method, by the decorator the source puts on it.
CategoryOf(name) ==
    CASE name \in {"insert_one_document", "insert_list_of_documents"} -> "insert"
      [] name \in {"select_many_documents", "select_one_document", "select_many_by_order",
                   "select_by_object_id", "search_many_or"} -> "select"
      [] name \in {"update_one_registry", "update_many_registries",
                   "update_many_with_increment"} -> "update"
      [] name \in {"delete_registry", "delete_many_registries"} -> "delete"
      [] name \in {"create_new_index_ttl", "create_new_index"} -> "index"

\* C4 amended: a failure of __get_collection is raised inside the decorated
\* method, so the method's wrapper handles it like a store failure: an
\* OperationFailure reaches the caller re-messaged by the wrapper, of kind
\* OperationFailure in insert, select and update methods and as a TypeError
\* in delete and index methods; any other failure reaches the caller
\* unchanged.  No request has been issued to the store.
C4_ResolutionErrorWrapped ==
    ResolveFailed =>
        /\ requests = << >>
        /\ result.tag = "raise"
        /\ IF driver.resolve # "OperationFailure"
           THEN result.exc = Exc(driver.resolve, "raw")
           ELSE IF CategoryOf(op) \in {"insert", "select", "update"}
           THEN result.exc = Exc("OperationFailure", CategoryOf(op))
           ELSE result.exc = Exc("TypeError", "builtin")

C4_Witness ==
    /\ op = "insert_one_document"
    /\ driver.resolve = "OperationFailure"
    /\ result = Raise(Exc("OperationFailure", "insert"))
    /\ requests = << >>

(***************************************************************************)
(* update_many_with_increment: properties                                  *)
(***************************************************************************)
IncCalled == op = "update_many_with_increment" /\ driver.resolve = "ok"

HasNonNumber(key_and_number) ==
    \E i \in 1..Len(key_and_number) : key_and_number[i][2].type \notin {"int", "float"}

\* C6: with a delta that is no int or float at any position, the call raises
\* the caller error without having issued any update: no field has been
\* incremented.
C6_NonNumberRejectedBeforeStore ==
    (IncCalled /\ driver.at = 0 /\ HasNonNumber(args.key_and_number))
        => (/\ result = Raise(Exc("ValueError", "value"))
            /\ requests = << >>
            /\ docs = before)

RECURSIVE IncPrefix(_, _, _, _)
\* The documents ds after the increments of the first n pairs of
\* key_and_number, each applied to the documents then matching the filter.
IncPrefix(ds, filter, key_and_number, n) ==
    IF n = 0 THEN ds
    ELSE LET prev == IncPrefix(ds, filter, key_and_number, n - 1)
             key == key_and_number[n][1]
             delta == key_and_number[n][2].val
         IN  [i \in 1..Len(prev) |->
                 IF Matches(prev[i], filter)
                 THEN [prev[i] EXCEPT ![key] = @ + delta]
                 ELSE prev[i]]

RECURSIVE SumResponses(_, _)
\* The sum of the modified counts the store answered to the first n requests.
SumResponses(reqs, n) ==
    IF n = 0 THEN 0 ELSE SumResponses(reqs, n - 1) + reqs[n].response

\* The store failed during the k-th increment: the increments before k are
\* applied, that of field k and the later ones are not.
PartialIncrements ==
    /\ Len(requests) = driver.at
    /\ \A i \in 1..(driver.at - 1) : requests[i].ok
    /\ docs = IncPrefix(before, args.search_filter, args.key_and_number, driver.at - 1)

\* C7 as stated: after a store failure during the k-th increment the call
\* returns the sum of the modified counts of the increments before k.
C7_PartialCountReturned ==
    (IncCalled /\ driver.at > 0)
        => (/\ PartialIncrements
            /\ result.tag = "return"
            /\ result.val = SumResponses(requests, driver.at - 1))

\* C7 amended: after a store failure during the k-th increment, the
\* increments before k stay applied, those of field k and later are absent,
\* and the call returns no count: the store's failure is raised to the caller.
C7_PartialThenRaise ==
    (IncCalled /\ driver.at > 0)
        => (/\ PartialIncrements
            /\ result.tag = "raise")

C7_Witness ==
    /\ IncCalled
    /\ driver.at = 2
    /\ docs # before
    /\ docs = IncPrefix(before, args.search_filter, args.key_and_number, 1)
    /\ result.tag = "raise"

\* A successful call has issued one increment per field of key_and_number,
\* in order, against the same filter, and returns the sum of their modified
\* counts.
SumOfPerFieldCounts ==
    (IncCalled /\ result.tag = "return")
        => (/\ Len(requests) = Len(args.key_and_number)
            /\ \A i \in 1..Len(requests) :
                  /\ requests[i].call = "update_many"
                  /\ requests[i].filter = args.search_filter
                  /\ requests[i].update =
                        [query |-> "$inc",
                         properties |-> << <<args.key_and_number[i][1],
                                             args.key_and_number[i][2].val>> >>]
                  /\ requests[i].ok
            /\ result.val = SumResponses(requests, Len(requests))
            /\ docs = IncPrefix(before, args.search_filter, args.key_and_number,
                                Len(args.key_and_number)))

\* Exactly one document matched when the call began, and key_and_number has
\* two fields with non-zero deltas.
OneMatchTwoDeltas ==
    /\ IncCalled
    /\ result.tag = "return"
    /\ Len(args.key_and_number) = 2
    /\ args.key_and_number[1][2].val # 0
    /\ args.key_and_number[2][2].val # 0
    /\ Cardinality(Matching(before, args.search_filter)) = 1

\* The documents matching the filter once the first increment is applied.
MatchingAtSecond ==
    Matching(IncPrefix(before, args.search_filter, args.key_and_number, 1),
             args.search_filter)

UpdCalled == op \in {"update_one_registry", "update_many_registries"}

\* Does document d already hold every value of the properties dict?
HoldsValues(d, properties) ==
    \A i \in 1..Len(properties) : d[properties[i][1]] = properties[i][2]

\* The documents the call's filter selected, as positions of `before`.
UpdMatched ==
    IF op = "update_one_registry" THEN First(Matching(before, args.search_filter))
    ELSE Matching(before, args.search_filter)

\* A $set call that has nothing to change: no document selected, or every
\* selected document already holding the values.
NothingToChange ==
    /\ UpdCalled
    /\ StoreAnswered
    /\ args.query = NoQuery
    /\ \A i \in UpdMatched : HoldsValues(before[i], args.properties)

C11_ZeroWhenNothingToChange == NothingToChange => result = Return(0)

\* update_one_registry(f, p) has just returned 1 and the same call is made
\* again at once, p setting no field that f reads: it returns 0.
C11_RepeatReturnsZero ==
    (/\ op = "update_one_registry"
     /\ StoreAnswered
     /\ args.query = NoQuery
     /\ \A i \in 1..Len(args.search_filter), j \in 1..Len(args.properties) :
            args.search_filter[i][1] # args.properties[j][1]
     /\ result = Return(1)
     /\ op' = op
     /\ args' = args
     /\ driver' = driver)
        => result' = Return(0)

\* C11: update_one_registry and update_many_registries return 0, without
\* raising, when the filter matches no document and when every matched
\* document already holds the target values; an update_one_registry that
\* returned 1 returns 0 when repeated immediately.
C11_ZeroCountIsReturned ==
    [] C11_ZeroWhenNothingToChange /\ [][C11_RepeatReturnsZero]_vars

\* An update that selected a document already holding the values returned 0.
C11_Witness ==
    /\ NothingToChange
    /\ UpdMatched # {}
    /\ result = Return(0)

(***************************************************************************)
(* Failures are raised, counts are returned                                *)
(***************************************************************************)
\* The methods that return the count of the documents they changed or
\* removed.
CountMethods ==
    {"update_one_registry", "update_many_registries", "update_many_with_increment",
     "delete_registry", "delete_many_registries"}

\* A count method whose every store request was answered and left the
\* documents as they were.
NothingChanged ==
    /\ op \in CountMethods
    /\ StoreAnswered
    /\ requests # << >>
    /\ op = "update_many_with_increment" => Len(requests) = Len(args.key_and_number)
    /\ docs = before

\* C12: a method whose store call raised, whatever the kind, raises to its
\* caller and returns no value; a count of zero from an update or a delete
\* is returned as a normal value.
C12_FailuresRaisedZeroReturned ==
    /\ StoreRaised => result.tag = "raise"
    /\ NothingChanged => result = Return(0)

\* A delete whose store call raised a kind no wrapper recognises.
C12_Witness ==
    /\ op = "delete_registry"
    /\ StoreRaised
    /\ driver.kind \notin RecognizedKinds
    /\ result.tag = "raise"

\* A delete that removed nothing returned 0.
C12_WitnessZero ==
    /\ op = "delete_registry"
    /\ NothingChanged
    /\ result = Return(0)

(***************************************************************************)
(* insert_one_document and select_by_object_id                             *)
(***************************************************************************)
InsertReturned == op = "insert_one_document" /\ result.tag = "return"

\* The dict d the caller passed, as it is after the call: insert_one has
\* given it the _id under which the store holds it.
PassedDocument == docs[Len(docs)]

\* A successful insert_one_document(d) returns d: every field the caller
\* passed with its value, and the _id the store assigned.
C13_InsertReturnsDocument ==
    InsertReturned =>
        /\ Len(docs) = Len(before) + 1
        /\ \A f \in DOMAIN args.document : PassedDocument[f] = args.document[f]
        /\ DOMAIN PassedDocument = DOMAIN args.document \cup {"id"}
        /\ result.val = PassedDocument

\* select_by_object_id called next, with the string form of the _id of the
\* document just returned and no projection, returns that document.
C13_SelectReturnsInserted ==
    (/\ InsertReturned
     /\ op' = "select_by_object_id"
     /\ args'.object_id = ObjectIdStr(result.val.id)
     /\ args'.return_options = NoOptions
     /\ driver'.resolve = "ok" /\ driver'.at = 0)
        => result' = Return(result.val)

\* C13: a successful insert_one_document(d) returns a value equal to d, and
\* a following select_by_object_id with the string form of the identity the
\* store assigned to d returns a document equivalent to d.
C13_InsertThenSelectById ==
    [] C13_InsertReturnsDocument /\ [][C13_SelectReturnsInserted]_vars

\* The second document inserted has been read back by its identity.
C13_Witness ==
    /\ op = "select_by_object_id"
    /\ StoreAnswered
    /\ Len(docs) = 2
    /\ args.object_id = ObjectIdStr(docs[2].id)
    /\ result = Return(docs[2])

(***************************************************************************)
(* select_by_object_id: a malformed identity                               *)
(***************************************************************************)
MalformedId == op = "select_by_object_id" /\ ~ObjectIdIsValid(args.object_id)

\* C14: select_by_object_id called with a string that is no valid identity
\* form raises before any find request is issued to the store, with or
\* without a projection, and the error of the conversion (InvalidId)
\* reaches the caller as raised, not re-raised by the select wrapper.
C14_MalformedIdRaisesBeforeStore ==
    MalformedId =>
        /\ requests = << >>
        /\ docs = before
        /\ result.tag = "raise"
        /\ driver.resolve = "ok" => result = Raise(Exc("InvalidId", "raw"))

\* A string of the right length with a character that is no hexadecimal
\* digit, passed with a projection to a store that holds a document.
C14_Witness ==
    /\ MalformedId
    /\ args.object_id = NotHex
    /\ args.return_options # NoOptions
    /\ docs # << >>
    /\ result = Raise(Exc("InvalidId", "raw"))

(***************************************************************************)
(* Store requests per call                                                 *)
(***************************************************************************)
\* C15: every method other than update_many_with_increment issues one
\* request to the store per call, whatever its arguments: never more than
\* one, and exactly one when it returns.
C15_OneRequestPerCall ==
    op \notin {"init", "update_many_with_increment"} =>
        /\ Len(requests) <= 1
        /\ result.tag = "return" => Len(requests) = 1

(***************************************************************************)
(* MongoConnectionHandler: disconnect_from_mongodb                         *)
(***************************************************************************)
Disconnected == connResult.call = "disconnect" /\ connResult.tag = "return"

\* After a disconnect the accessors still return handles, and the client
\* they return is closed.
C16_HandlesKept ==
    Disconnected =>
        /\ get_client # None
        /\ get_connection # None
        /\ get_client \notin liveClients

\* A step that is a disconnect leaves both handles as they were.
C16_DisconnectStep ==
    (connResult'.call = "disconnect" /\ connResult'.tag = "return")
        => /\ client' = client
           /\ db_connection' = db_connection
           /\ client \notin liveClients'

\* C16: disconnect_from_mongodb closes the client and leaves the stored
\* handles unchanged: after connect() and disconnect_from_mongodb(),
\* get_client() and get_connection() return the same non-null handles as
\* before the disconnect.
C16_DisconnectKeepsHandles ==
    [] C16_HandlesKept /\ [][C16_DisconnectStep]_vars

\* connect(), disconnect_from_mongodb(), then get_client() returning the
\* handle of the closed client.
C16_Witness ==
    /\ connResult.call = "get_client"
    /\ connResult.val # None
    /\ connResult.val \notin liveClients
    /\ get_connection # None

====
